---- MODULE Spec2Model ----
(***************************************************************************)
(* The entry store of the volunteering log (src-tauri/src/lib.rs): one     *)
(* JSON file holding a Vec<VolunteerEntry>, read and rewritten by the four *)
(* commands get_entries, add_entry, delete_entry and update_entry.         *)
(*                                                                         *)
(* The backing file is modelled by what is on disk (its JSON document),    *)
(* the collection in memory by a sequence of entries, and the codec        *)
(* between the two by what serde_json does with each field.                *)
(***************************************************************************)
EXTENDS Integers, Sequences, FiniteSets, TLC

VARIABLES
    file,   \* the backing file volunteer_log.json as it is on disk
    last,   \* the last command invoked: its arguments, environment and outcome
    race,   \* two commands in flight, each between its load and its save
    trip    \* the progress of an add, update, delete scenario

vars == <<file, last, race, trip>>

----------------------------------------------------------------------------
(* Bounds of the model.                                                    *)

\* Longest collection an add_entry is let to build.
MaxLen == 2
\* Clock readings SystemTime::now() may return: the first and MaxTick later ones.
MaxTick == 1
\* Upper 32 bit halves of the hash that rand_u32 truncates: 0 .. MaxHi.
MaxHi == 1

----------------------------------------------------------------------------
(* Values.                                                                 *)

\* An f32: a finite value half/2, or a non-finite one (infinity, NaN).
F32(fin, half) == [fin |-> fin, half |-> half]

\* The (place, date, hours, notes) arguments the commands are invoked with.
\* The last one carries hours = f32::INFINITY, which the type f32 of the
\* argument admits.
Inputs ==
    { [place |-> "Library", date |-> "2024-01-10", hours |-> F32(TRUE, 4),
       notes |-> "Shelved books"],
      [place |-> "Library", date |-> "2024-01-11", hours |-> F32(TRUE, 5),
       notes |-> "Shelved books, sorted"],
      [place |-> "Food Bank", date |-> "2024-03-15", hours |-> F32(FALSE, 0),
       notes |-> ""] }

NoInput == [place |-> "", date |-> "", hours |-> F32(TRUE, 0), notes |-> ""]

\* struct VolunteerEntry
VolunteerEntry(id, inp) ==
    [id |-> id, place |-> inp.place, date |-> inp.date, hours |-> inp.hours,
     notes |-> inp.notes]

\* Readings of SystemTime::now() in nanoseconds since the epoch. The system
\* clock is not monotonic and has a finite resolution: a reading may repeat.
Nows == 26 .. (26 + MaxTick)

\* Values of RandomState::new().build_hasher().finish(): a u64, held as its
\* upper and lower 32 bit halves.
Hashes == { [hi |-> h, lo |-> 255] : h \in 0 .. MaxHi }

----------------------------------------------------------------------------
(* Identifier generation.                                                  *)

HexDigit(d) ==
    <<"0", "1", "2", "3", "4", "5", "6", "7", "8", "9",
      "a", "b", "c", "d", "e", "f">>[d + 1]

\* format!("{:x}", n)
RECURSIVE Hex(_)
Hex(n) == IF n < 16 THEN HexDigit(n) ELSE Hex(n \div 16) \o HexDigit(n % 16)

\* rand_u32: the hash `as u32` keeps the lower 32 bits.
rand_u32(hash) == hash.lo

\* uuid_v4: format!("{:x}-{:x}", now, rand_u32())
uuid_v4(now, hash) == Hex(now) \o "-" \o Hex(rand_u32(hash))

\* The ids uuid_v4 can return to add_entry, over the clock readings and the
\* hashes, and the id arguments of delete_entry and update_entry: those and
\* a string uuid_v4 never produces.
GeneratedIds == { uuid_v4(n, h) : n \in Nows, h \in Hashes }
IdArgs == GeneratedIds \cup {"no-such-id"}

----------------------------------------------------------------------------
(* The codec: serde_json::to_string_pretty and serde_json::from_str.       *)

\* serde_json writes a finite f32 as a number and a non-finite one as null.
WriteF32(h) ==
    IF h.fin THEN [tok |-> "num", half |-> h.half]
    ELSE [tok |-> "null", half |-> 0]

\* One object of the document, field names retained.
WriteEntry(e) ==
    [id |-> e.id, place |-> e.place, date |-> e.date,
     hours |-> WriteF32(e.hours), notes |-> e.notes]

\* serde_json::to_string_pretty(entries): the array of the entries' objects.
to_string_pretty(entries) == [i \in DOMAIN entries |-> WriteEntry(entries[i])]

\* Deserializing an f32 accepts a number and rejects null.
ReadF32Ok(t) == t.tok = "num"
ReadF32(t) == F32(TRUE, t.half)

ReadEntry(o) ==
    [id |-> o.id, place |-> o.place, date |-> o.date,
     hours |-> ReadF32(o.hours), notes |-> o.notes]

\* A file's text: a JSON array of entry objects, or anything else (empty
\* text, a truncated document, arbitrary bytes).
JsonText(objs) == [json |-> TRUE, objs |-> objs]
OtherText == [json |-> FALSE, objs |-> <<>>]

\* A decoder that drops the elements it cannot decode.
from_str_skip_bad(data) ==
    IF data.json
    THEN LET good == SelectSeq(data.objs, LAMBDA o : ReadF32Ok(o.hours))
         IN  [i \in DOMAIN good |-> ReadEntry(good[i])]
    ELSE <<>>

\* A decoder that reads a missing number as 0.0.
from_str_lenient(data) ==
    IF data.json
    THEN [i \in DOMAIN data.objs |->
            [ReadEntry(data.objs[i]) EXCEPT
                !.hours = IF ReadF32Ok(data.objs[i].hours)
                          THEN ReadF32(data.objs[i].hours)
                          ELSE F32(TRUE, 0)]]
    ELSE <<>>

\* serde_json::from_str::<Vec<VolunteerEntry>>(data).unwrap_or_default():
\* one element that fails to decode fails the whole vector.
from_str_or_default(data) ==
    IF data.json /\ \A i \in DOMAIN data.objs : ReadF32Ok(data.objs[i].hours)
    THEN [i \in DOMAIN data.objs |-> ReadEntry(data.objs[i])]
    ELSE <<>>

----------------------------------------------------------------------------
(* The backing file and the environment of one command.                    *)

MissingFile == [exists |-> FALSE, text |-> OtherText]
FileWith(text) == [exists |-> TRUE, text |-> text]

\* What one command meets in its environment:
\*   dir    which call of get_data_path finds that the directory cannot be
\*          created: none ("ok"), the one in load_entries ("load") or the
\*          one in save_entries ("save");
\*   read   whether fs::read_to_string succeeds on the existing file;
\*   write  whether fs::write succeeds ("ok"), fails before the file is
\*          opened ("denied": the file is as it was) or fails after it was
\*          truncated ("torn": the file exists and holds no document).
Env(dir, read, write) == [dir |-> dir, read |-> read, write |-> write]

NoFault == Env("ok", TRUE, "ok")

\* The results of a function that may panic.
Panic == [panic |-> TRUE, val |-> <<>>]
Returns(v) == [panic |-> FALSE, val |-> v]

\* A get_data_path that drops the result of fs::create_dir_all.
get_data_path_ignore(env, call) == TRUE

\* get_data_path: fs::create_dir_all(&app_dir).expect(..) panics when the
\* directory cannot be created. TRUE when the call returns the path.
get_data_path(env, call) == env.dir # call

\* fs::read_to_string(&path).unwrap_or_default(): the text, or "" on failure.
read_to_string_or_default(f, env) == IF env.read THEN f.text ELSE OtherText

\* A load that unwraps the read instead of defaulting it.
load_entries_unwrap(f, env) ==
    IF ~get_data_path(env, "load") THEN Panic
    ELSE IF ~f.exists THEN Returns(<<>>)
    ELSE IF ~env.read THEN Panic
    ELSE Returns(from_str_or_default(f.text))

\* load_entries
load_entries(f, env) ==
    IF ~get_data_path(env, "load") THEN Panic
    ELSE IF f.exists
         THEN Returns(from_str_or_default(read_to_string_or_default(f, env)))
         ELSE Returns(<<>>)

\* fs::write(&path, data): creates or truncates the file and writes the data.
fs_write(f, data, env) ==
    CASE env.write = "ok" -> FileWith(JsonText(data))
      [] env.write = "denied" -> f
      [] OTHER -> FileWith(OtherText)

\* A save that drops the result of fs::write.
save_entries_swallow(f, entries, env) ==
    IF ~get_data_path(env, "save") THEN [panic |-> TRUE, val |-> f]
    ELSE [panic |-> FALSE, val |-> fs_write(f, to_string_pretty(entries), env)]

\* A save that does not write an empty collection.
save_entries_skip_empty(f, entries, env) ==
    IF ~get_data_path(env, "save") THEN [panic |-> TRUE, val |-> f]
    ELSE IF entries = <<>> THEN [panic |-> FALSE, val |-> f]
    ELSE [panic |-> env.write # "ok",
          val |-> fs_write(f, to_string_pretty(entries), env)]

\* save_entries: the file it leaves, and whether it panicked on the way.
save_entries(f, entries, env) ==
    IF ~get_data_path(env, "save") THEN [panic |-> TRUE, val |-> f]
    ELSE [panic |-> env.write # "ok",
          val |-> fs_write(f, to_string_pretty(entries), env)]

\* The environments that make a difference to a command run on file f:
\* reading matters only when the file exists, and nothing matters past a panic.
ReadOutcomes(f) == IF f.exists THEN BOOLEAN ELSE {TRUE}
LoadEnvs(f) ==
    {Env("load", TRUE, "ok")} \cup { Env("ok", r, "ok") : r \in ReadOutcomes(f) }
SaveEnvs(f) ==
    {Env("load", TRUE, "ok")}
    \cup { Env("ok", r, w) : r \in ReadOutcomes(f), w \in {"ok", "denied", "torn"} }
    \cup { Env("save", r, "ok") : r \in ReadOutcomes(f) }

----------------------------------------------------------------------------
(* The mutations of the collection in memory.                              *)

\* A push at the front.
push_front(entries, entry) == <<entry>> \o entries

\* entries.push(entry)
push(entries, entry) == Append(entries, entry)

\* A retain with the test inverted.
retain_inverted(entries, id) == SelectSeq(entries, LAMBDA e : e.id = id)

\* A removal of the first match only.
retain_first_only(entries, id) ==
    IF \E i \in DOMAIN entries : entries[i].id = id
    THEN LET i == CHOOSE k \in DOMAIN entries :
                    /\ entries[k].id = id
                    /\ \A j \in 1 .. (k - 1) : entries[j].id # id
         IN  SubSeq(entries, 1, i - 1) \o SubSeq(entries, i + 1, Len(entries))
    ELSE entries

\* entries.retain(|e| e.id != id)
retain(entries, id) == SelectSeq(entries, LAMBDA e : e.id # id)

\* A find from the back: the last index with that id.
find_last(entries, id) ==
    IF \E i \in DOMAIN entries : entries[i].id = id
    THEN CHOOSE i \in DOMAIN entries :
            /\ entries[i].id = id
            /\ \A j \in (i + 1) .. Len(entries) : entries[j].id # id
    ELSE 0

\* entries.iter_mut().find(|e| e.id == id): the first index with that id, 0
\* when there is none.
find(entries, id) ==
    IF \E i \in DOMAIN entries : entries[i].id = id
    THEN CHOOSE i \in DOMAIN entries :
            /\ entries[i].id = id
            /\ \A j \in 1 .. (i - 1) : entries[j].id # id
    ELSE 0

\* An update that leaves out `entry.hours = hours`.
assign_fields_skip_hours(entries, id, inp) ==
    LET i == find(entries, id) IN
    IF i = 0 THEN entries
    ELSE [entries EXCEPT ![i] = [VolunteerEntry(entries[i].id, inp)
                                 EXCEPT !.hours = entries[i].hours]]

\* An update that inserts the entry when no entry has the id.
assign_fields_upsert(entries, id, inp) ==
    LET i == find(entries, id) IN
    IF i = 0 THEN Append(entries, VolunteerEntry(id, inp))
    ELSE [entries EXCEPT ![i] = VolunteerEntry(entries[i].id, inp)]

\* The body of update_entry's `if let Some(entry)`.
assign_fields(entries, id, inp) ==
    LET i == find(entries, id) IN
    IF i = 0 THEN entries
    ELSE [entries EXCEPT ![i] = VolunteerEntry(entries[i].id, inp)]

----------------------------------------------------------------------------
(* The commands. Each is one step: load, mutate, save, return. `last`      *)
(* records the step: the command and its arguments, the environment it     *)
(* met, the file before it, the collection it loaded, whether it returned  *)
(* ("ok") or panicked, and the collection it returned.                     *)

Outcome(op, id, inp, env, before, loaded, res, ret) ==
    [op |-> op, id |-> id, inp |-> inp, env |-> env, before |-> before,
     loaded |-> loaded, res |-> res, ret |-> ret]

\* A command that panicked inside load_entries.
PanicAtLoad(op, id, inp, env) ==
    /\ last' = Outcome(op, id, inp, env, file, <<>>, "panic", <<>>)
    /\ UNCHANGED file

\* The tail shared by the three mutating commands:
\* save_entries(&app, &entries); entries
SaveAndReturn(op, id, inp, env, loaded, entries) ==
    LET saved == save_entries(file, entries, env) IN
    /\ file' = saved.val
    /\ last' = IF saved.panic
               THEN Outcome(op, id, inp, env, file, loaded, "panic", <<>>)
               ELSE Outcome(op, id, inp, env, file, loaded, "ok", entries)

\* The bodies of the four commands, for given arguments and environment.
GetEntries(env) ==
    LET l == load_entries(file, env) IN
    IF l.panic THEN PanicAtLoad("list", "", NoInput, env)
    ELSE /\ last' = Outcome("list", "", NoInput, env, file, l.val, "ok", l.val)
         /\ UNCHANGED file

\* id is the value uuid_v4() returns to the command.
AddEntry(inp, env, id) ==
    LET l == load_entries(file, env) IN
    IF l.panic THEN PanicAtLoad("add", "", inp, env)
    ELSE /\ Len(l.val) < MaxLen
         /\ SaveAndReturn("add", "", inp, env, l.val,
                          push(l.val, VolunteerEntry(id, inp)))

DeleteEntry(id, env) ==
    LET l == load_entries(file, env) IN
    IF l.panic THEN PanicAtLoad("delete", id, NoInput, env)
    ELSE SaveAndReturn("delete", id, NoInput, env, l.val, retain(l.val, id))

UpdateEntry(id, inp, env) ==
    LET l == load_entries(file, env) IN
    IF l.panic THEN PanicAtLoad("update", id, inp, env)
    ELSE SaveAndReturn("update", id, inp, env, l.val,
                       assign_fields(l.val, id, inp))

\* The commands as the host dispatches them: one at a time, each run to
\* completion, with any arguments and in any environment.
get_entries ==
    /\ \E env \in LoadEnvs(file) : GetEntries(env)
    /\ UNCHANGED <<race, trip>>

add_entry ==
    /\ \E inp \in Inputs, env \in SaveEnvs(file), id \in GeneratedIds :
        AddEntry(inp, env, id)
    /\ UNCHANGED <<race, trip>>

delete_entry ==
    /\ \E id \in IdArgs, env \in SaveEnvs(file) : DeleteEntry(id, env)
    /\ UNCHANGED <<race, trip>>

update_entry ==
    /\ \E id \in IdArgs, inp \in Inputs, env \in SaveEnvs(file) :
        UpdateEntry(id, inp, env)
    /\ UNCHANGED <<race, trip>>

NoOutcome(f) == Outcome("none", "", NoInput, NoFault, f, <<>>, "ok", <<>>)

\* The processes of the interleaved runs, and the two extra variables at
\* rest.
Procs == {1, 2}
NoCmd == [op |-> "none", id |-> "", inp |-> NoInput]
RaceStart(f) ==
    [pc |-> [p \in Procs |-> "idle"], cmd |-> [p \in Procs |-> NoCmd],
     loc |-> [p \in Procs |-> <<>>], ret |-> [p \in Procs |-> <<>>],
     saved |-> <<>>, overlap |-> FALSE, f0 |-> f]
TripStart(c) == [step |-> 0, c0 |-> c, id |-> ""]

\* Before the first command the data directory holds no file, a file that
\* is no JSON document, or an empty log.
Init ==
    /\ file \in {MissingFile, FileWith(OtherText), FileWith(JsonText(<<>>))}
    /\ last = NoOutcome(file)
    /\ race = RaceStart(MissingFile)
    /\ trip = TripStart(<<>>)

Next == get_entries \/ add_entry \/ delete_entry \/ update_entry

Spec == Init /\ [][Next]_vars

----------------------------------------------------------------------------
(* Files a session starts from: no file, an empty log, or the log one      *)
(* add_entry has written.                                                  *)

SeedFiles ==
    {MissingFile, FileWith(JsonText(<<>>))}
    \cup { FileWith(JsonText(to_string_pretty(<<VolunteerEntry(id, inp)>>))) :
            id \in GeneratedIds, inp \in Inputs }

----------------------------------------------------------------------------
(* Two mutating commands whose loads and saves interleave. Nothing locks   *)
(* the file between load_entries and save_entries: a command is a load     *)
(* step and a save step, and the other command's steps may fall between.   *)
(* The environment meets no fault.                                         *)

\* The mutating commands with their arguments; an add carries the id that
\* uuid_v4() returns to it.
Cmds ==
    { [op |-> "add", id |-> id, inp |-> inp] :
        id \in GeneratedIds, inp \in Inputs }
    \cup { [op |-> "delete", id |-> id, inp |-> NoInput] : id \in IdArgs }
    \cup { [op |-> "update", id |-> id, inp |-> inp] :
            id \in IdArgs, inp \in Inputs }

\* What a command does to the collection between its load and its save.
Apply(cmd, entries) ==
    CASE cmd.op = "add" -> push(entries, VolunteerEntry(cmd.id, cmd.inp))
      [] cmd.op = "delete" -> retain(entries, cmd.id)
      [] cmd.op = "update" -> assign_fields(entries, cmd.id, cmd.inp)
      [] OTHER -> entries

\* let mut entries = load_entries(&app);
RaceLoad(p) ==
    /\ race.pc[p] = "idle"
    /\ \E cmd \in Cmds :
        LET l == load_entries(file, NoFault).val IN
        /\ cmd.op = "add" => Len(l) < MaxLen
        /\ race' = [race EXCEPT
                !.pc[p] = "loaded", !.cmd[p] = cmd, !.loc[p] = l,
                !.overlap = @ \/ \E q \in Procs : race.pc[q] = "loaded"]
    /\ UNCHANGED <<file, last, trip>>

\* (the mutation); save_entries(&app, &entries); entries
RaceSave(p) ==
    /\ race.pc[p] = "loaded"
    /\ LET entries == Apply(race.cmd[p], race.loc[p]) IN
        /\ file' = save_entries(file, entries, NoFault).val
        /\ race' = [race EXCEPT !.pc[p] = "done", !.ret[p] = entries,
                                !.saved = Append(@, p)]
    /\ UNCHANGED <<last, trip>>

RaceInit ==
    /\ file \in SeedFiles
    /\ last = NoOutcome(file)
    /\ race = RaceStart(file)
    /\ trip = TripStart(<<>>)

RaceNext == \E p \in Procs : RaceLoad(p) \/ RaceSave(p)

SpecRace == RaceInit /\ [][RaceNext]_vars

----------------------------------------------------------------------------
(* The scenario: on a collection c0, an add_entry, then an update_entry of *)
(* the id the add gave, then a delete_entry of that id. The environment    *)
(* meets no fault.                                                         *)

TripAdd ==
    /\ trip.step = 0
    /\ \E inp \in Inputs, id \in GeneratedIds :
        /\ AddEntry(inp, NoFault, id)
        /\ trip' = [trip EXCEPT !.step = 1, !.id = id]
    /\ UNCHANGED race

TripUpdate ==
    /\ trip.step = 1
    /\ \E inp \in Inputs : UpdateEntry(trip.id, inp, NoFault)
    /\ trip' = [trip EXCEPT !.step = 2]
    /\ UNCHANGED race

TripDelete ==
    /\ trip.step = 2
    /\ DeleteEntry(trip.id, NoFault)
    /\ trip' = [trip EXCEPT !.step = 3]
    /\ UNCHANGED race

TripInit ==
    /\ file \in SeedFiles
    /\ last = NoOutcome(file)
    /\ race = RaceStart(MissingFile)
    /\ trip = TripStart(load_entries(file, NoFault).val)

TripNext == TripAdd \/ TripUpdate \/ TripDelete

SpecTrip == TripInit /\ [][TripNext]_vars

----------------------------------------------------------------------------
(* Vocabulary of the properties.                                           *)

Mutating == {"add", "delete", "update"}

\* The collection a file holds: what a command that meets no fault loads
\* from it, hence what a list issued right then returns.
Stored(f) == load_entries(f, NoFault).val

Ids(entries) == { entries[i].id : i \in DOMAIN entries }

SameFields(e, inp) ==
    /\ e.place = inp.place
    /\ e.date = inp.date
    /\ e.hours = inp.hours
    /\ e.notes = inp.notes

\* The document holds one object per entry, in order, with the entry's
\* strings (the hours are left to the codec).
HoldsDocumentOf(f, entries) ==
    /\ f.exists
    /\ f.text.json
    /\ Len(f.text.objs) = Len(entries)
    /\ \A i \in DOMAIN entries :
        /\ f.text.objs[i].id = entries[i].id
        /\ f.text.objs[i].place = entries[i].place
        /\ f.text.objs[i].date = entries[i].date
        /\ f.text.objs[i].notes = entries[i].notes

----------------------------------------------------------------------------
(* C1..C10                                                                 *)

\* C1: all ids of the entries in the stored collection are pairwise
\* distinct, after any sequence of commands from an empty collection.
C1_IdsDistinct ==
    \A i, j \in DOMAIN file.text.objs :
        i # j => file.text.objs[i].id # file.text.objs[j].id

\* C2: an add_entry that loads n entries returns and persists n + 1 entries:
\* the n loaded ones unchanged and in order, then one whose place, date,
\* hours and notes are the arguments.
C2_AddAppends ==
    (last.op = "add" /\ last.res = "ok") =>
        LET n == Len(last.loaded) IN
        /\ Len(last.ret) = n + 1
        /\ SubSeq(last.ret, 1, n) = last.loaded
        /\ SameFields(last.ret[n + 1], last.inp)
        /\ Len(Stored(file)) = n + 1
        /\ SubSeq(Stored(file), 1, n) = last.loaded
        /\ SameFields(Stored(file)[n + 1], last.inp)

\* C3: delete_entry is idempotent. Whether it completes depends on the
\* environment alone, never on the id being found; on a loaded collection
\* without the id it returns and persists that collection unchanged; and a
\* second delete_entry of the same id right after a completed one returns
\* the same collection and leaves the same file.
C3_DeleteStep ==
    last'.op = "delete" =>
        /\ last'.res = "ok" <=> (last'.env.dir = "ok" /\ last'.env.write = "ok")
        /\ (last'.res = "ok" /\ last'.id \notin Ids(last'.loaded)) =>
            /\ last'.ret = last'.loaded
            /\ HoldsDocumentOf(file', last'.loaded)
            /\ Stored(file') = last'.loaded
        /\ ( /\ last.op = "delete" /\ last.res = "ok"
             /\ last'.id = last.id /\ last'.res = "ok" /\ last'.env.read ) =>
            /\ last'.ret = last.ret
            /\ file' = file

C3_DeleteIdempotent == [][C3_DeleteStep]_vars

\* A delete_entry of an id that no entry of a non-empty collection has.
C3_Witness ==
    /\ last.op = "delete" /\ last.res = "ok"
    /\ last.loaded # <<>>
    /\ last.id \notin Ids(last.loaded)
    /\ last.before = file

\* C4: update_entry of an id some loaded entry has gives one such entry the
\* four arguments, keeps its id and its position, and leaves every other
\* entry and the length as they were.
C4_UpdateFrame ==
    (last.op = "update" /\ last.res = "ok" /\ last.id \in Ids(last.loaded)) =>
        /\ Len(last.ret) = Len(last.loaded)
        /\ \E i \in DOMAIN last.loaded :
            /\ last.loaded[i].id = last.id
            /\ last.ret[i].id = last.id
            /\ SameFields(last.ret[i], last.inp)
            /\ \A j \in DOMAIN last.loaded : j # i => last.ret[j] = last.loaded[j]
        /\ HoldsDocumentOf(file, last.ret)

\* An update_entry that changed the second of two entries with distinct ids.
C4_Witness ==
    /\ last.op = "update" /\ last.res = "ok"
    /\ Len(last.loaded) = 2
    /\ last.loaded[1].id # last.id
    /\ last.loaded[2].id = last.id
    /\ last.ret[2] # last.loaded[2]

\* C5: update_entry of an id no loaded entry has raises no error of its own
\* (it completes exactly when the directory and the write do), returns the
\* loaded collection unchanged and rewrites the file with it.
C5_UpdateMiss ==
    (last.op = "update" /\ last.env.dir # "load"
        /\ last.id \notin Ids(last.loaded)) =>
        /\ last.res = "ok" <=> (last.env.dir = "ok" /\ last.env.write = "ok")
        /\ last.res = "ok" =>
            /\ last.ret = last.loaded
            /\ HoldsDocumentOf(file, last.loaded)
            /\ Stored(file) = last.loaded

\* An update_entry that missed on a non-empty collection.
C5_Witness ==
    /\ last.op = "update" /\ last.res = "ok"
    /\ last.loaded # <<>>
    /\ last.id \notin Ids(last.loaded)

\* C6 as stated: get_entries completes in every environment, the directory
\* that cannot be created included.
C6_ListNeverFails == last.op = "list" => last.res = "ok"

\* C6: get_entries completes and returns a collection whatever the state of
\* the backing file, and aborts exactly when the directory cannot be created.
C6_ListFailsOnlyOnDirectory ==
    last.op = "list" => (last.res = "ok" <=> last.env.dir = "ok")

\* A get_entries that completed on a file it could not read.
C6_Witness ==
    /\ last.op = "list" /\ last.res = "ok"
    /\ file.exists /\ ~last.env.read

\* C7: get_entries returns the empty collection when the file is missing,
\* cannot be read or does not decode (it is no JSON array, or one of its
\* objects has no number for hours), and otherwise the stored entries in
\* stored order.
C7_ListResult ==
    (last.op = "list" /\ last.res = "ok") =>
        /\ file = last.before
        /\ IF \/ ~file.exists
              \/ ~last.env.read
              \/ ~file.text.json
              \/ \E i \in DOMAIN file.text.objs :
                    file.text.objs[i].hours.tok # "num"
           THEN last.ret = <<>>
           ELSE /\ HoldsDocumentOf(file, last.ret)
                /\ \A i \in DOMAIN last.ret :
                    /\ last.ret[i].hours.fin
                    /\ last.ret[i].hours.half = file.text.objs[i].hours.half

\* A get_entries on a readable document that holds an entry without a
\* number for hours beside one with.
C7_Witness ==
    /\ last.op = "list" /\ last.res = "ok" /\ last.env.read
    /\ file.exists /\ file.text.json
    /\ \E i, j \in DOMAIN file.text.objs :
        /\ file.text.objs[i].hours.tok = "null"
        /\ file.text.objs[j].hours.tok = "num"

\* C8: a mutating command whose write fails does not return a collection,
\* and one that returns a collection has written it to the file.
C8_WriteFailurePropagates ==
    last.op \in Mutating =>
        /\ (last.env.dir = "ok" /\ last.env.write # "ok") =>
            (last.res = "panic" /\ last.ret = <<>>)
        /\ last.res = "ok" =>
            (last.env.write = "ok" /\ HoldsDocumentOf(file, last.ret))

\* An add_entry whose write failed after truncating a file that held entries.
C8_Witness ==
    /\ last.op = "add" /\ last.res = "panic"
    /\ last.env.dir = "ok" /\ last.env.write = "torn"
    /\ last.loaded # <<>>
    /\ file # last.before

\* C9: the collection a completed add_entry, delete_entry or update_entry
\* returns is the collection the file holds, which a list issued right after
\* returns.
C9_ReturnedIsStored ==
    (last.op \in Mutating /\ last.res = "ok") => last.ret = Stored(file)

\* C10: an entry stays in the stored collection until delete_entry is called
\* with its id, and keeps its fields unless update_entry is called with its
\* id. Stated for the commands that met no fault in their environment.
C10_EntriesPersist ==
    last.env = NoFault =>
        LET old == Stored(last.before)
            new == Stored(file)
        IN  \A i \in DOMAIN old :
            /\ ~(last.op = "delete" /\ last.id = old[i].id) =>
                old[i].id \in Ids(new)
            /\ ~(last.op \in {"delete", "update"} /\ last.id = old[i].id) =>
                \E j \in DOMAIN new : new[j] = old[i]

----------------------------------------------------------------------------
(* C13..C19                                                                *)

\* The indexes of the entries that do not have the id, and the place of
\* such an index among them.
Kept(entries, id) == { i \in DOMAIN entries : entries[i].id # id }
Rank(entries, id, i) == Cardinality({ j \in Kept(entries, id) : j <= i })

\* The indexes of the entries that have the id.
Matches(entries, id) == { i \in DOMAIN entries : entries[i].id = id }

\* The document cannot be decoded: it is no JSON array, or one of its
\* objects has no number for hours.
Undecodable(f) ==
    \/ ~f.text.json
    \/ \E i \in DOMAIN f.text.objs : f.text.objs[i].hours.tok # "num"

\* a is b with some elements left out, the others in b's order.
RECURSIVE IsSubsequence(_, _)
IsSubsequence(a, b) ==
    IF a = <<>> THEN TRUE
    ELSE IF b = <<>> THEN FALSE
    ELSE IF Head(a) = Head(b) THEN IsSubsequence(Tail(a), Tail(b))
    ELSE IsSubsequence(a, Tail(b))

\* C13: saving a collection and loading it again yields a collection equal
\* to it in length, order and every field. Checked on every collection a
\* mutating command saves, the empty one included.
C13_SaveLoadRoundTrip ==
    (last.op \in Mutating /\ last.res = "ok") =>
        LET back == from_str_or_default(JsonText(to_string_pretty(last.ret)))
        IN  /\ Len(back) = Len(last.ret)
            /\ \A i \in DOMAIN last.ret :
                /\ back[i].id = last.ret[i].id
                /\ SameFields(back[i], last.ret[i])

\* C14: delete_entry returns and writes exactly the loaded entries whose id
\* differs from the argument, in their order, also when several entries
\* have that id.
C14_DeleteRemovesAllMatches ==
    (last.op = "delete" /\ last.res = "ok") =>
        /\ Len(last.ret) = Cardinality(Kept(last.loaded, last.id))
        /\ \A i \in Kept(last.loaded, last.id) :
            last.ret[Rank(last.loaded, last.id, i)] = last.loaded[i]
        /\ HoldsDocumentOf(file, last.ret)

\* A delete_entry of an id that two loaded entries share.
C14_Witness ==
    /\ last.op = "delete" /\ last.res = "ok"
    /\ Cardinality(Matches(last.loaded, last.id)) = 2
    /\ last.ret = <<>>

\* C15: every command keeps the order of the entries: add_entry appends at
\* the end, update_entry leaves the sequence of ids as it was, delete_entry
\* leaves the remaining entries in their relative order; the document
\* written has the order of the collection returned.
C15_OrderPreserved ==
    last.res = "ok" =>
        /\ last.op = "add" =>
            /\ Len(last.ret) = Len(last.loaded) + 1
            /\ \A i \in DOMAIN last.loaded : last.ret[i] = last.loaded[i]
        /\ last.op = "update" =>
            /\ Len(last.ret) = Len(last.loaded)
            /\ \A i \in DOMAIN last.loaded : last.ret[i].id = last.loaded[i].id
        /\ last.op = "delete" => IsSubsequence(last.ret, last.loaded)
        /\ last.op = "list" => last.ret = last.loaded
        /\ last.op \in Mutating =>
            /\ Len(file.text.objs) = Len(last.ret)
            /\ \A i \in DOMAIN last.ret : file.text.objs[i].id = last.ret[i].id

\* An add_entry onto a collection that held an entry with another id.
C15_Witness ==
    /\ last.op = "add" /\ last.res = "ok"
    /\ Len(last.loaded) = 1
    /\ last.ret[2].id # last.ret[1].id

\* C16 as stated: every completed command, get_entries included, leaves the
\* file holding the document of the collection it returns.
C16_EveryCommandSaves == last.res = "ok" => HoldsDocumentOf(file, last.ret)

\* C16: every completed add_entry, delete_entry and update_entry leaves the
\* file holding the document of the collection it returns; get_entries only
\* loads and leaves the file as it was.
C16_MutatingCommandsSave ==
    /\ (last.op \in Mutating /\ last.res = "ok") =>
        /\ HoldsDocumentOf(file, last.ret)
        /\ \A i \in DOMAIN last.ret :
            file.text.objs[i].hours.tok = "num" <=> last.ret[i].hours.fin
    /\ last.op = "list" => file = last.before

\* A delete_entry that found no file, deleted nothing and wrote the empty
\* document.
C16_Witness ==
    /\ last.op = "delete" /\ last.res = "ok"
    /\ ~last.before.exists
    /\ file.exists /\ file.text.json /\ file.text.objs = <<>>

\* C17: a command that finds the directory impossible to create panics
\* without returning a collection and leaves the file as it was, having
\* loaded nothing when its first get_data_path failed; a command whose
\* directory can be created is not stopped by that step, and a get_entries
\* then leaves the file as it was.
C17_DirectoryFailureIsFatal ==
    last.op # "none" =>
        /\ last.env.dir # "ok" =>
            /\ last.res = "panic"
            /\ last.ret = <<>>
            /\ file = last.before
        /\ last.env.dir = "load" => last.loaded = <<>>
        /\ (last.env.dir = "ok" /\ last.env.write = "ok") => last.res = "ok"
        /\ (last.env.dir = "ok" /\ last.op = "list") => file = last.before

\* An update_entry stopped by the directory while the file held entries.
C17_Witness ==
    /\ last.op = "update" /\ last.res = "panic"
    /\ last.env.dir = "load"
    /\ Stored(file) # <<>>

\* C18: a command that completes on an existing file it cannot read or
\* decode works from the empty collection: add_entry leaves the file with
\* exactly the new entry, delete_entry and update_entry leave it with the
\* empty collection, get_entries returns the empty collection and leaves
\* the file as it was.
C18_MalformedFileIsOverwritten ==
    ( /\ last.op # "none" /\ last.env.dir = "ok" /\ last.env.write = "ok"
      /\ last.before.exists
      /\ (~last.env.read \/ Undecodable(last.before)) ) =>
        /\ last.res = "ok"
        /\ last.loaded = <<>>
        /\ last.op = "add" =>
            /\ HoldsDocumentOf(file, last.ret)
            /\ Len(file.text.objs) = 1
            /\ SameFields(last.ret[1], last.inp)
        /\ last.op \in {"delete", "update"} =>
            (last.ret = <<>> /\ file = FileWith(JsonText(<<>>)))
        /\ last.op = "list" => (last.ret = <<>> /\ file = last.before)

\* An update_entry, with the id of an object of the document, that met a
\* document holding an object without a number for hours and emptied it.
C18_Witness ==
    /\ last.op = "update" /\ last.res = "ok" /\ last.env.read
    /\ last.before.exists /\ last.before.text.json
    /\ \E i \in DOMAIN last.before.text.objs :
        /\ last.before.text.objs[i].hours.tok = "null"
        /\ last.before.text.objs[i].id = last.id
    /\ file = FileWith(JsonText(<<>>))

\* C19: when several loaded entries have the id, update_entry overwrites
\* the fields of the first of them only and leaves the later ones (and all
\* others) as they were, whereas delete_entry removes every one of them.
C19_DuplicateIds ==
    (last.res = "ok" /\ Cardinality(Matches(last.loaded, last.id)) > 1) =>
        LET m == Matches(last.loaded, last.id)
            first == CHOOSE i \in m : \A j \in m : i <= j
        IN  /\ last.op = "update" =>
                /\ Len(last.ret) = Len(last.loaded)
                /\ last.ret[first].id = last.id
                /\ SameFields(last.ret[first], last.inp)
                /\ \A j \in DOMAIN last.loaded :
                    j # first => last.ret[j] = last.loaded[j]
            /\ last.op = "delete" =>
                /\ Matches(last.ret, last.id) = {}
                /\ Len(last.ret) = Len(last.loaded) - Cardinality(m)

\* An update_entry that changed the first of two entries sharing the id and
\* left the second, which differs from the arguments, as it was.
C19_Witness ==
    /\ last.op = "update" /\ last.res = "ok"
    /\ Matches(last.loaded, last.id) = {1, 2}
    /\ last.ret[1] # last.loaded[1]
    /\ last.ret[2] = last.loaded[2]
    /\ ~SameFields(last.ret[2], last.inp)

----------------------------------------------------------------------------
(* C11, C12                                                                *)

BothDone == \A p \in Procs : race.pc[p] = "done"

\* C11: of two mutating commands that have both completed, when both loaded
\* before either saved the file holds the result of the one that saved
\* last alone, and when one ran to completion before the other loaded the
\* file holds the result of both, the second applied to the first: no
\* update is lost.
C11_OnlyOverlapLosesUpdates ==
    BothDone =>
        LET first == race.cmd[race.saved[1]]
            second == race.cmd[race.saved[2]]
            c0 == Stored(race.f0)
        IN  IF race.overlap
            THEN HoldsDocumentOf(file, Apply(second, c0))
            ELSE HoldsDocumentOf(file, Apply(second, Apply(first, c0)))

\* Two add_entry calls with finite hours and distinct ids that both loaded
\* before either saved: both returned, and the file holds one entry more
\* than before, without the id the first to save had added.
C11_LostUpdate ==
    /\ BothDone
    /\ race.overlap
    /\ \A p \in Procs : race.cmd[p].op = "add" /\ race.cmd[p].inp.hours.fin
    /\ race.cmd[1].id # race.cmd[2].id
    /\ \A p \in Procs : Len(race.ret[p]) = Len(Stored(race.f0)) + 1
    /\ Len(file.text.objs) = Len(race.f0.text.objs) + 1
    /\ \A i \in DOMAIN file.text.objs :
        file.text.objs[i].id # race.cmd[race.saved[1]].id

\* C12: on a collection c0, add_entry followed by update_entry of the new
\* id returns c0 plus one entry with that id and the updated fields, and a
\* following delete_entry of that id returns and leaves stored exactly c0.
C12_AddUpdateDeleteRoundTrip ==
    /\ trip.step = 2 =>
        /\ last.res = "ok"
        /\ Len(last.ret) = Len(trip.c0) + 1
        /\ SubSeq(last.ret, 1, Len(trip.c0)) = trip.c0
        /\ last.ret[Len(last.ret)].id = trip.id
        /\ SameFields(last.ret[Len(last.ret)], last.inp)
    /\ trip.step = 3 =>
        /\ last.res = "ok"
        /\ last.ret = trip.c0
        /\ Stored(file) = trip.c0

\* The scenario of the specification: from the empty collection, an add
\* and an update with finite hours, ended by the delete with the empty
\* collection returned and stored.
C12_Scenario ==
    /\ trip.step = 3
    /\ trip.c0 = <<>>
    /\ last.op = "delete" /\ last.id = trip.id
    /\ Len(last.loaded) = 1
    /\ last.loaded[1].date = "2024-01-11"
    /\ last.ret = <<>>
    /\ file = FileWith(JsonText(<<>>))

====
